---------------------------- MODULE Spec2Model ----------------------------
(***************************************************************************)
(* The GraphQL schema builder of strapi (lib/configuration/hooks/graphql/  *)
(* schema.js, held as src/unnamed/part_001): getGraphQLSchema and its      *)
(* passes over the process-wide `defaults` object, the policy scaffold     *)
(* writes of buildPolicies, the generated resolvers and the Node lookup.   *)
(*                                                                         *)
(* Names on which the code does string work (collection keys, collection   *)
(* identities, query and mutation field names) are sequences of one-letter *)
(* strings, so that toLowerCase, _.capitalize, + and indexOf are computed. *)
(***************************************************************************)
EXTENDS Integers, Sequences, FiniteSets, Bags, TLC

(***************************************************************************)
(* Bounds of the model.                                                    *)
(***************************************************************************)
\* calls of getGraphQLSchema in one behaviour
MaxBuilds == 2
\* collections in the mapping handed to one call
MaxCollections == 2
\* resolver invocations in one behaviour
MaxInvocations == 2
\* rows one collection.find of the Node lookup may return
MaxMatches == 2

(***************************************************************************)
(* Strings.                                                                *)
(***************************************************************************)
ToLowerChar(c) ==
  CASE c = "C" -> "c" [] c = "D" -> "d" [] c = "E" -> "e"
    [] c = "L" -> "l" [] c = "F" -> "f" [] OTHER -> c

ToUpperChar(c) ==
  CASE c = "c" -> "C" [] c = "d" -> "D" [] c = "e" -> "E"
    [] c = "l" -> "L" [] c = "f" -> "F" [] OTHER -> c

\* String.prototype.toLowerCase
toLowerCase(s) == [i \in 1..Len(s) |-> ToLowerChar(s[i])]

\* _.capitalize: first letter to upper case, the rest to lower case
capitalize(s) ==
  [i \in 1..Len(s) |-> IF i = 1 THEN ToUpperChar(s[i]) ELSE ToLowerChar(s[i])]

\* key.indexOf(sub) !== -1
Contains(s, sub) ==
  \E i \in 0..(Len(s) - Len(sub)) : SubSeq(s, i + 1, i + Len(sub)) = sub

Str_s == <<"s">>
Str_getLatest == <<"g", "e", "t", "L", "a", "t", "e", "s", "t">>
Str_getFirst == <<"g", "e", "t", "F", "i", "r", "s", "t">>
Str_count == <<"c", "o", "u", "n", "t">>
Str_create == <<"c", "r", "e", "a", "t", "e">>
Str_update == <<"u", "p", "d", "a", "t", "e">>
Str_delete == <<"d", "e", "l", "e", "t", "e">>

(***************************************************************************)
(* Insertion-ordered objects (a JavaScript object with string keys): a     *)
(* sequence of records that each hold their key.                           *)
(***************************************************************************)
Keys(m) == [i \in 1..Len(m) |-> m[i].key]

Has(m, k) == \E i \in 1..Len(m) : m[i].key = k

Get(m, k) == m[CHOOSE i \in 1..Len(m) : m[i].key = k]

Put(m, f) ==
  IF Has(m, f.key)
  THEN [i \in 1..Len(m) |-> IF m[i].key = f.key THEN f ELSE m[i]]
  ELSE Append(m, f)

\* _.assign(object, source)
RECURSIVE Assign(_, _)
Assign(m, fs) == IF fs = <<>> THEN m ELSE Assign(Put(m, Head(fs)), Tail(fs))

Range(s) == {s[i] : i \in 1..Len(s)}

(***************************************************************************)
(* The collections a caller may hand in.  `orm` is what                    *)
(* modelsUtils.getORM(key) answers for the collection; "undefined" is a    *)
(* collection whose storage engine cannot be resolved.                     *)
(***************************************************************************)
NoName == <<>>

Scalar(n, t, req) ==
  [name |-> n, kind |-> "scalar", type |-> t, required |-> req,
   target |-> NoName]

BelongsTo(n, model, req) ==
  [name |-> n, kind |-> "model", type |-> "", required |-> req,
   target |-> model]

HasMany(n, collection, req) ==
  [name |-> n, kind |-> "collection", type |-> "", required |-> req,
   target |-> collection]

Cat ==
  [key |-> <<"c", "a", "t">>, orm |-> "bookshelf", primaryKey |-> "id",
   attributes |-> << Scalar("name", "string", TRUE),
                     Scalar("age", "integer", FALSE),
                     BelongsTo("parent", <<"c", "a", "t">>, FALSE),
                     HasMany("kittens", <<"c", "a", "t">>, FALSE) >>]

Dog ==
  [key |-> <<"d", "o", "g">>, orm |-> "mongoose", primaryKey |-> "id",
   attributes |-> << Scalar("name", "string", TRUE),
                     BelongsTo("favorite", <<"c", "a", "t">>, TRUE) >>]

Emu ==
  [key |-> <<"e", "m", "u">>, orm |-> "undefined", primaryKey |-> "id",
   attributes |-> << Scalar("name", "string", FALSE) >>]

CollectionDefs == {Cat, Dog, Emu}

\* every relation of the mapping points at a collection of the mapping
Closed(cols) ==
  \A i \in 1..Len(cols) : \A j \in 1..Len(cols[i].attributes) :
    LET a == cols[i].attributes[j]
    IN  a.kind # "scalar" => \E k \in 1..Len(cols) : cols[k].key = a.target

\* the mappings: distinct keys, insertion order kept
Mappings ==
  { cols \in UNION {[1..n -> CollectionDefs] : n \in 0..MaxCollections} :
      /\ \A i, j \in 1..Len(cols) : i # j => cols[i].key # cols[j].key
      /\ Closed(cols) }

\* an option of params: the key is absent ("unset") or holds a boolean
OptionValues == {"unset", "true", "false"}

Params ==
  [collections : Mappings, ignoreMutations : OptionValues,
   usefulQueries : OptionValues]

(***************************************************************************)
(* State.                                                                  *)
(***************************************************************************)
VARIABLES
  \* this.defaults: the registry shared by every call
  collections, usefulQueries, ignoreMutations, types, queryFields,
  functions, mutations, node,
  \* the calls of getGraphQLSchema so far, the params of the last one, the
  \* last schema constructed
  nCalls, params, Schema,
  \* what the caller of the last call saw: the invocations of cb, and
  \* whether the call threw
  callbacks, thrown,
  \* what the last call did, in order: pass iterations, registry reads,
  \* the callback, the writes started
  trace,
  \* the fs.writeJson calls in flight, and those of the last call with the
  \* outcome their callback saw
  writes,
  \* the resolver invocations: the promise chain of each, as far as it got
  invocations,
  \* the last call of nodeFields.resolve
  lookup

registry ==
  << collections, usefulQueries, ignoreMutations, types, queryFields,
     functions, mutations, node >>

buildVars == << nCalls, params, Schema, callbacks, thrown, trace >>

NoSchema == [built |-> FALSE, query |-> <<>>, hasMutation |-> FALSE,
             mutation |-> <<>>, collections |-> <<>>]

NoParams == [collections |-> <<>>, ignoreMutations |-> "unset",
             usefulQueries |-> "unset"]

(***************************************************************************)
(* The external collaborators, as the specification describes them.        *)
(***************************************************************************)
\* modelsUtils.getORM(key)
getORM(collection) == collection.orm

\* functions[ORM].getCollectionIdentity(collection): the capitalised name
getCollectionIdentity(collection) == capitalize(collection.key)

\* modelsUtils.getPK(collectionIdentity, collection)
getPK(collection) == collection.primaryKey

\* helpers.convertToGraphQLQueryType(rules): the Type Mapper on a scalar
convertToGraphQLQueryType(rules) ==
  CASE rules.type = "string" -> "String"
    [] rules.type = "integer" -> "Int"
    [] OTHER -> "String"

\* helpers.convertToGraphQLRelationType(rules): the primitive type of the
\* target's primary key
convertToGraphQLRelationType(rules) == "String"

(***************************************************************************)
(* GraphQL type references and arguments.                                  *)
(***************************************************************************)
GraphQLInt == [kind |-> "scalar", name |-> <<"I", "n", "t">>, list |-> FALSE]

UndefinedType == [kind |-> "undefined", name |-> NoName, list |-> FALSE]

\* the GraphQLObjectType buildType stores under types[identity]
ObjectType(identity) ==
  [kind |-> "object", name |-> capitalize(identity), list |-> FALSE]

\* this.defaults.types[k]
TypeAt(ts, k) == IF k \in ts THEN ObjectType(k) ELSE UndefinedType

GraphQLList(t) == [t EXCEPT !.list = TRUE]

Arg(n, t) == [name |-> n, of |-> t, nonNull |-> FALSE]

NonNullArg(n, t) == [name |-> n, of |-> t, nonNull |-> TRUE]

\* _.assign(args, more): a later argument replaces one of the same name
AssignArgs(args, more) ==
  {a \in args : \A b \in more : b.name # a.name} \cup more

(***************************************************************************)
(* buildQueryFields: the query fields of one collection.                   *)
(***************************************************************************)
QueryField(k, t, a, collection, policy, fn) ==
  [key |-> k, type |-> t, args |-> a, hasArgs |-> TRUE,
   category |-> "queries",
   identity |-> getCollectionIdentity(collection),
   orm |-> getORM(collection), policy |-> policy, fn |-> fn]

\* the three fields added when defaults.usefulQueries === true
UsefulQueryFields(collection, ts) ==
  LET id == getCollectionIdentity(collection)
      T == TypeAt(ts, id)
  IN  << QueryField(Str_getLatest \o id \o Str_s, GraphQLList(T),
                    {NonNullArg("count", "Int")}, collection,
                    Str_getLatest \o id \o Str_s, "fetchLatest"),
         QueryField(Str_getFirst \o id \o Str_s, GraphQLList(T),
                    {NonNullArg("count", "Int")}, collection,
                    Str_getFirst \o id \o Str_s, "fetchFirst"),
         QueryField(Str_count \o id \o Str_s, GraphQLInt,
                    {}, collection,
                    Str_count \o id \o Str_s, "count") >>

\* defaults.usefulQueries === true
UsefulEnabled(useful) == useful = "true"

\* "Apply date filters to each query": every field but the singular one
DateFilters(fields, singular) ==
  [i \in 1..Len(fields) |->
     IF fields[i].key = singular
     THEN fields[i]
     ELSE [fields[i] EXCEPT
             !.args = AssignArgs(@, {Arg("start", "String"),
                                     Arg("end", "String")})]]

QueryFieldsOf(collection, ts, useful) ==
  LET id == getCollectionIdentity(collection)
      T == TypeAt(ts, id)
      base ==
        << QueryField(toLowerCase(id), T, {NonNullArg("id", "String")},
                      collection, id, "fetch"),
           QueryField(toLowerCase(id) \o Str_s, GraphQLList(T),
                      {Arg("limit", "Int"), Arg("skip", "Int"),
                       Arg("sort", "String")},
                      collection, id \o Str_s, "fetchAll") >>
  IN  DateFilters(
        base \o (IF UsefulEnabled(useful)
                 THEN UsefulQueryFields(collection, ts) ELSE <<>>),
        toLowerCase(id))

(***************************************************************************)
(* buildMutation: the mutation fields of one collection.                   *)
(***************************************************************************)
IsRelation(rules) == rules.kind \in {"model", "collection"}

\* args.required of "Build args"
RequiredArgs(collection) ==
  { IF IsRelation(a)
    THEN NonNullArg(a.name, convertToGraphQLRelationType(a))
    ELSE NonNullArg(a.name, convertToGraphQLQueryType(a)) :
    a \in {b \in Range(collection.attributes) : b.required} }

\* args.notRequired of "Build args"
NotRequiredArgs(collection) ==
  { IF IsRelation(a)
    THEN Arg(a.name, convertToGraphQLRelationType(a))
    ELSE Arg(a.name, convertToGraphQLQueryType(a)) :
    a \in {b \in Range(collection.attributes) : ~b.required} }

\* argPK
ArgPK(collection) == {NonNullArg(getPK(collection), "String")}

MutationField(prefix, a, withArgs, collection, ts, fn) ==
  LET id == getCollectionIdentity(collection)
  IN  [key |-> prefix \o id, type |-> TypeAt(ts, id), args |-> a,
       hasArgs |-> withArgs, category |-> "mutations",
       identity |-> id, orm |-> getORM(collection),
       policy |-> prefix \o id, fn |-> fn]

\* the create field: the source gives it a type and a resolver, no args
CreateField(collection, ts) ==
  MutationField(Str_create, {}, FALSE, collection, ts, "create")

MutationFieldsOf(collection, ts) ==
  << CreateField(collection, ts),
     MutationField(Str_update,
                   AssignArgs(RequiredArgs(collection), ArgPK(collection)),
                   TRUE, collection, ts, "update"),
     MutationField(Str_delete,
                   AssignArgs(NotRequiredArgs(collection), ArgPK(collection)),
                   TRUE, collection, ts, "delete") >>

(***************************************************************************)
(* buildPolicies: the operation names of one collection's scaffold.        *)
(***************************************************************************)
\* the predicate of _.pickBy
RelatedTo(key, rootKey) ==
  Contains(key, rootKey) \/ Contains(key, capitalize(rootKey))

PolicyNames(fields, rootKey) ==
  {fields[i].key : i \in {j \in 1..Len(fields) : RelatedTo(fields[j].key, rootKey)}}

(***************************************************************************)
(* getGraphQLSchema.  A call runs to completion before anything else of    *)
(* the process runs, so it is one action; its code is followed statement   *)
(* by statement on a record b that holds this.defaults, the position in    *)
(* the call (pc, and idx inside a _.forEach over defaults.collections)     *)
(* and what the call has done so far.                                      *)
(***************************************************************************)
PassEvent(pass, key) ==
  [ev |-> "pass", what |-> pass, key |-> key, orm |-> "", found |-> TRUE]

\* a read of defaults.functions[orm]
ReadFunctions(orm, fns) ==
  [ev |-> "read", what |-> "functions", key |-> NoName, orm |-> orm,
   found |-> orm \in fns]

\* a read of defaults.types[k]
ReadType(k, ts) ==
  [ev |-> "read", what |-> "types", key |-> k, orm |-> "", found |-> k \in ts]

CbEvent ==
  [ev |-> "cb", what |-> "", key |-> NoName, orm |-> "", found |-> TRUE]

WriteEvent(key) ==
  [ev |-> "write", what |-> "", key |-> key, orm |-> "", found |-> TRUE]

ThrowEvent ==
  [ev |-> "throw", what |-> "", key |-> NoName, orm |-> "", found |-> TRUE]

\* the test of line 40 left out: no mapping counts as empty
IsEmptyNever(cols) == FALSE

\* _.isEmpty(params.collections)
IsEmpty(cols) == Len(cols) = 0

\* one key of _.assign(this.defaults, params)
AssignOption(old, given) == IF given = "unset" THEN old ELSE given

\* line 45: this.defaults = _.assign(this.defaults, params)
AssignDefaults(b, p) ==
  [b EXCEPT !.collections = p.collections,
            !.usefulQueries = AssignOption(@, p.usefulQueries),
            !.ignoreMutations = AssignOption(@, p.ignoreMutations),
            !.pc = "getQueries"]

\* cb('GraphQL server has not been started ...', null) and return
RefuseEmpty(b) ==
  [b EXCEPT !.callbacks = Append(@, [err |-> TRUE, schema |-> FALSE]),
            !.pc = "idle"]

\* lines 40 to 45
StartCall(b, p) ==
  IF IsEmpty(p.collections) THEN RefuseEmpty(b) ELSE AssignDefaults(b, p)

\* getQueries, up to its first _.forEach
GetQueries(b) ==
  [b EXCEPT !.types = {}, !.queryFields = <<>>, !.functions = {},
            !.node = TRUE, !.pc = "functions", !.idx = 1]

\* the end of a _.forEach over defaults.collections
EndLoop(b, next) == [b EXCEPT !.pc = next, !.idx = 1]

\* the test of buildFunctionsByORM
MustLoad(ORM, fns) == ORM # "undefined" /\ ORM \notin fns

BuildFunctionsByORM(b) ==
  LET collection == b.collections[b.idx]
      ORM == getORM(collection)
  IN  [b EXCEPT !.functions = IF MustLoad(ORM, @) THEN @ \cup {ORM} ELSE @,
                !.trace = Append(@, PassEvent("functions", collection.key)),
                !.idx = @ + 1]

\* a TypeError leaves getGraphQLSchema: the call ends there
Throw(b) ==
  [b EXCEPT !.pc = "idle", !.thrown = TRUE,
            !.trace = Append(@, ThrowEvent)]

BuildType(b) ==
  LET collection == b.collections[b.idx]
      ORM == getORM(collection)
      read == [b EXCEPT !.trace = @ \o << PassEvent("types", collection.key),
                                          ReadFunctions(ORM, b.functions) >>]
  IN  IF ORM \in b.functions
      THEN [read EXCEPT !.types = @ \cup {getCollectionIdentity(collection)},
                        !.idx = @ + 1]
      ELSE Throw(read)

BuildQueryFields(b) ==
  LET collection == b.collections[b.idx]
      ORM == getORM(collection)
      id == getCollectionIdentity(collection)
  IN  [b EXCEPT !.queryFields =
                  Assign(@, QueryFieldsOf(collection, b.types, b.usefulQueries)),
                !.trace = @ \o << PassEvent("queries", collection.key),
                                  ReadFunctions(ORM, b.functions),
                                  ReadType(id, b.types) >>,
                !.idx = @ + 1]

\* line 48: _.get(this.defaults, 'ignoreMutations') === true
IgnoreMutations(ignore) == ignore = "true"

\* getMutations, up to its _.forEach
GetMutations(b) == [b EXCEPT !.mutations = <<>>, !.pc = "mutations", !.idx = 1]

BuildMutation(b) ==
  LET collection == b.collections[b.idx]
      ORM == getORM(collection)
      id == getCollectionIdentity(collection)
  IN  [b EXCEPT !.mutations = Assign(@, MutationFieldsOf(collection, b.types)),
                !.trace = @ \o << PassEvent("mutations", collection.key),
                                  ReadFunctions(ORM, b.functions),
                                  ReadType(id, b.types) >>,
                !.idx = @ + 1]

\* the reads of the field thunks of buildType: one type per relation
RECURSIVE RelationReads(_, _)
RelationReads(attributes, ts) ==
  IF attributes = <<>> THEN <<>>
  ELSE (IF IsRelation(Head(attributes))
        THEN << ReadType(capitalize(Head(attributes).target), ts) >>
        ELSE <<>>) \o RelationReads(Tail(attributes), ts)

RECURSIVE ThunkReads(_, _)
ThunkReads(cols, ts) ==
  IF cols = <<>> THEN <<>>
  ELSE RelationReads(Head(cols).attributes, ts) \o ThunkReads(Tail(cols), ts)

\* new GraphQL.GraphQLSchema(...): the thunks of the types and of the two
\* roots are evaluated here
NewSchema(b) ==
  [b EXCEPT !.Schema =
              [built |-> TRUE, query |-> b.queryFields,
               hasMutation |-> ~IgnoreMutations(b.ignoreMutations),
               mutation |-> IF IgnoreMutations(b.ignoreMutations)
                            THEN <<>> ELSE b.mutations,
               collections |-> b.collections],
            !.trace = @ \o ThunkReads(b.collections, b.types),
            !.pc = "cb"]

\* cb(null, Schema)
Callback(b) ==
  [b EXCEPT !.callbacks = Append(@, [err |-> FALSE, schema |-> TRUE]),
            !.trace = Append(@, CbEvent),
            !.pc = "policies", !.idx = 1]

\* the body of the _.forEach of buildPolicies: one fs.writeJson is started
BuildPolicies(b) ==
  LET rootKey == b.collections[b.idx].key
  IN  [b EXCEPT !.writes = @ \cup
                  {[call |-> b.call, key |-> rootKey,
                    queries |-> PolicyNames(b.queryFields, rootKey),
                    mutations |-> PolicyNames(b.mutations, rootKey),
                    st |-> "pending"]},
                !.trace = Append(@, WriteEvent(rootKey)),
                !.idx = @ + 1]

\* one statement of the call
Step(b) ==
  LET more == b.idx <= Len(b.collections)
  IN  CASE b.pc = "getQueries" -> GetQueries(b)
        [] b.pc = "functions" ->
             IF more THEN BuildFunctionsByORM(b) ELSE EndLoop(b, "types")
        [] b.pc = "types" ->
             IF more THEN BuildType(b) ELSE EndLoop(b, "queries")
        [] b.pc = "queries" ->
             IF more THEN BuildQueryFields(b)
             ELSE IF IgnoreMutations(b.ignoreMutations)
                  THEN EndLoop(b, "schema") ELSE GetMutations(b)
        [] b.pc = "mutations" ->
             IF more THEN BuildMutation(b) ELSE EndLoop(b, "schema")
        [] b.pc = "schema" -> NewSchema(b)
        [] b.pc = "cb" -> Callback(b)
        [] b.pc = "policies" ->
             IF more THEN BuildPolicies(b) ELSE EndLoop(b, "idle")

RECURSIVE Run(_)
Run(b) == IF b.pc = "idle" THEN b ELSE Run(Step(b))

\* the state a call starts in: what the caller saw and what the call did
\* start empty, and of the earlier writes those still in flight are kept
Entry ==
  [collections |-> collections, usefulQueries |-> usefulQueries,
   ignoreMutations |-> ignoreMutations, types |-> types,
   queryFields |-> queryFields, functions |-> functions,
   mutations |-> mutations, node |-> node, Schema |-> Schema,
   callbacks |-> <<>>, thrown |-> FALSE, trace |-> <<>>,
   writes |-> {w \in writes : w.st = "pending"},
   call |-> nCalls + 1, pc |-> "start", idx |-> 0]

GetGraphQLSchema(p) ==
  /\ nCalls < MaxBuilds
  /\ \E b \in {Run(StartCall(Entry, p))} :
         /\ collections' = b.collections
         /\ usefulQueries' = b.usefulQueries
         /\ ignoreMutations' = b.ignoreMutations
         /\ types' = b.types
         /\ queryFields' = b.queryFields
         /\ functions' = b.functions
         /\ mutations' = b.mutations
         /\ node' = b.node
         /\ Schema' = b.Schema
         /\ callbacks' = b.callbacks
         /\ thrown' = b.thrown
         /\ trace' = b.trace
         /\ writes' = b.writes
  /\ nCalls' = nCalls + 1
  /\ params' = p
  /\ UNCHANGED << invocations, lookup >>

\* the callback of fs.writeJson: function (err) { if (err) console.log(err) }
WriteJsonCallback(w, err) ==
  /\ w \in writes
  /\ w.st = "pending"
  /\ writes' = (writes \ {w}) \cup
                 {[w EXCEPT !.st = IF err THEN "logged" ELSE "written"]}
  /\ UNCHANGED << registry, buildVars, invocations, lookup >>

(***************************************************************************)
(* The generated resolvers.  Each is the promise chain                     *)
(*   utils.applyPolicies(rootValue, category, identity, policy)            *)
(*     .then(function () { return self.defaults.functions[ORM].fn(...) })  *)
(*     .catch(function () { return null })                                 *)
(* and an invocation is held from the call of the Policy Gate on.  Once    *)
(* the promise the resolver returned is settled, the closure of the        *)
(* resolver (its field, collection and ORM) is no longer used, and the     *)
(* invocation keeps the root it belongs to, what its chain did and the     *)
(* value it settled with.                                                  *)
(***************************************************************************)
\* the resolver of field f is entered: the Policy Gate is called
Invocation(f, via) ==
  [key |-> f.key, category |-> f.category, identity |-> f.identity,
   orm |-> f.orm, policy |-> f.policy, fn |-> f.fn, via |-> via,
   phase |-> "gate", gate |-> "pending", adapter |-> "none",
   settled |-> "pending", value |-> "none"]

\* a relation resolver that threw a TypeError before it reached a resolver
ThrownRelation ==
  [key |-> NoName, category |-> "none", identity |-> NoName, orm |-> "",
   policy |-> NoName, fn |-> "", via |-> "relation",
   phase |-> "done", gate |-> "none", adapter |-> "none",
   settled |-> "threw", value |-> "none"]

\* the promise of the resolver is settled
Settled(r, how, v) ==
  [r EXCEPT !.key = NoName, !.identity = NoName, !.orm = "",
            !.policy = NoName, !.fn = "",
            !.phase = "done", !.settled = how, !.value = v]

\* a chain without its .catch: the rejection reaches the caller
CaughtNot(r) == Settled(r, "rejected", "none")

\* .catch(function () { return null; })
Caught(r) == Settled(r, "fulfilled", "null")

\* .then(function (data) { return data; })
Returned(r) == Settled(r, "fulfilled", "data")

\* a chain whose adapter call does not wait for the Policy Gate's answer
OnGateUnchecked(r, ok, fns) ==
  IF r.orm \in fns
  THEN [r EXCEPT !.gate = IF ok THEN "resolved" ELSE "rejected",
                 !.phase = "adapter", !.adapter = "called"]
  ELSE Caught([r EXCEPT !.gate = IF ok THEN "resolved" ELSE "rejected",
                        !.adapter = "missing"])

\* the promise of applyPolicies settles: the .then handler runs when it
\* resolved and calls functions[ORM].fn, a TypeError when the registry
\* holds no functions for ORM; the .catch handler runs otherwise
OnGate(r, ok, fns) ==
  IF ok
  THEN IF r.orm \in fns
       THEN [r EXCEPT !.gate = "resolved", !.phase = "adapter",
                      !.adapter = "called"]
       ELSE Caught([r EXCEPT !.gate = "resolved", !.adapter = "missing"])
  ELSE Caught([r EXCEPT !.gate = "rejected"])

\* the promise of the adapter function settles
OnAdapter(r, ok) ==
  IF ok
  THEN Returned([r EXCEPT !.adapter = "returned"])
  ELSE Caught([r EXCEPT !.adapter = "failed"])

\* the fields of the schema the caller holds
SchemaFields == Range(Schema.query) \cup Range(Schema.mutation)

Replace(r, r2) == (invocations (-) SetToBag({r})) (+) SetToBag({r2})

\* the GraphQL engine executes field f of a root type
Resolve(f) ==
  /\ Schema.built
  /\ f \in SchemaFields
  /\ BagCardinality(invocations) < MaxInvocations
  /\ invocations' = invocations (+) SetToBag({Invocation(f, "field")})
  /\ UNCHANGED << registry, buildVars, writes, lookup >>

\* the query field a relation field resolver delegates to
DelegateKey(rules) ==
  IF rules.kind = "model"
  THEN toLowerCase(rules.target)
  ELSE toLowerCase(rules.target) \o Str_s

\* what the resolver of a relation field reads of the parent object and of
\* defaults.collections before it delegates: a TypeError when one is missing
RelationThrows(rules, set, cols) ==
  /\ rules.kind = "model"
  /\ \/ ~set
     \/ \A i \in 1..Len(cols) : cols[i].key # rules.target

\* the outcome of buildType's resolve for a relation field: the delegate
\* is looked up in defaults.queryFields as the registry holds it now
RelationOutcome(rules, set, cols, fields) ==
  IF RelationThrows(rules, set, cols) \/ ~Has(fields, DelegateKey(rules))
  THEN ThrownRelation
  ELSE Invocation(Get(fields, DelegateKey(rules)), "relation")

\* the GraphQL engine executes relation field `rules` of the type of
\* collection c; `set` tells whether the parent object holds the relation
ResolveRelation(c, rules, set) ==
  /\ Schema.built
  /\ c \in Range(Schema.collections)
  /\ rules \in Range(c.attributes)
  /\ IsRelation(rules)
  /\ BagCardinality(invocations) < MaxInvocations
  /\ invocations' = invocations (+)
       SetToBag({RelationOutcome(rules, set, collections, queryFields)})
  /\ UNCHANGED << registry, buildVars, writes, lookup >>

GateSettle(r, ok) ==
  /\ BagIn(r, invocations)
  /\ r.phase = "gate"
  /\ invocations' = Replace(r, OnGate(r, ok, functions))
  /\ UNCHANGED << registry, buildVars, writes, lookup >>

AdapterSettle(r, ok) ==
  /\ BagIn(r, invocations)
  /\ r.phase = "adapter"
  /\ invocations' = Replace(r, OnAdapter(r, ok))
  /\ UNCHANGED << registry, buildVars, writes, lookup >>

(***************************************************************************)
(* nodeFields.resolve: the global Node lookup.                             *)
(***************************************************************************)
Pending == 0 - 1
Rejected == 0 - 2

NoLookup ==
  [st |-> "none", cols |-> <<>>, results |-> <<>>, error |-> FALSE,
   from |-> 0, type |-> UndefinedType]

\* resolve is entered: one collection.find(criteria) per collection of
\* defaults.collections, pushed in iteration order
NodeResolve ==
  /\ node
  /\ lookup.st # "pending"
  /\ lookup' = [NoLookup EXCEPT !.st = "pending", !.cols = collections,
                                !.results = [i \in 1..Len(collections) |-> Pending]]
  /\ UNCHANGED << registry, buildVars, writes, invocations >>

\* one find settles: with n rows, or rejected
FindSettle(i, n) ==
  /\ lookup.st = "pending"
  /\ i \in 1..Len(lookup.results)
  /\ lookup.results[i] = Pending
  /\ lookup' = [lookup EXCEPT !.results[i] = n]
  /\ UNCHANGED << registry, buildVars, writes, invocations >>

\* the _.forEach over results: the index of the first of size 1, from 1;
\* 0 when there is none (typeIndex and object stay undefined)
TypeIndex(results) ==
  IF \E i \in 1..Len(results) : results[i] = 1
  THEN CHOOSE i \in 1..Len(results) :
         /\ results[i] = 1
         /\ \A j \in 1..(i - 1) : results[j] # 1
  ELSE 0

\* self.defaults.queryFields[_.keys(self.defaults.queryFields)[typeIndex]]
StampedField(fields, typeIndex) == fields[typeIndex]

\* the .then handler of Promise.all, and the .catch handler, which returns
\* the error
NodeSettled(l, fields) ==
  LET t == TypeIndex(l.results)
  IN  IF \/ \E i \in 1..Len(l.results) : l.results[i] = Rejected
         \/ t = 0
         \/ t > Len(fields)
      THEN [l EXCEPT !.st = "done", !.error = TRUE]
      ELSE [l EXCEPT !.st = "done", !.from = t,
                     !.type = StampedField(fields, t).type]

NodeThen ==
  /\ lookup.st = "pending"
  /\ \/ \A i \in 1..Len(lookup.results) : lookup.results[i] # Pending
     \/ \E i \in 1..Len(lookup.results) : lookup.results[i] = Rejected
  /\ lookup' = NodeSettled(lookup, queryFields)
  /\ UNCHANGED << registry, buildVars, writes, invocations >>

vars == << registry, buildVars, writes, invocations, lookup >>

Init ==
  /\ collections = <<>>
  /\ usefulQueries = "true"
  /\ ignoreMutations = "unset"
  /\ types = {}
  /\ queryFields = <<>>
  /\ functions = {}
  /\ mutations = <<>>
  /\ node = FALSE
  /\ nCalls = 0
  /\ params = NoParams
  /\ Schema = NoSchema
  /\ callbacks = <<>>
  /\ thrown = FALSE
  /\ trace = <<>>
  /\ writes = {}
  /\ invocations = EmptyBag
  /\ lookup = NoLookup

(***************************************************************************)
(* Specifications.  The callbacks of the writes, the resolvers and the     *)
(* Node lookup do not act on each other, and each is checked beside the    *)
(* calls of getGraphQLSchema in a specification of its own.                *)
(***************************************************************************)
Build == \E p \in Params : GetGraphQLSchema(p)

WriteCallbacks ==
  \E w \in writes : \E err \in BOOLEAN : WriteJsonCallback(w, err)

\* the calls of getGraphQLSchema alone
SpecBuild == Init /\ [][Build]_vars

\* the calls and the callbacks of the writes they start
Next == Build \/ WriteCallbacks

Spec == Init /\ [][Next]_vars

\* the calls beside the resolvers: one collection, no option set
ResolverParams ==
  {p \in Params : /\ Len(p.collections) = 1
                  /\ p.ignoreMutations = "unset"
                  /\ p.usefulQueries = "unset"}

AllRules == UNION {Range(c.attributes) : c \in CollectionDefs}

InFlight == BagToSet(invocations)

NextResolvers ==
  \/ \E p \in ResolverParams : GetGraphQLSchema(p)
  \/ \E f \in SchemaFields : Resolve(f)
  \/ \E c \in CollectionDefs : \E rules \in AllRules : \E set \in BOOLEAN :
       ResolveRelation(c, rules, set)
  \/ \E r \in InFlight : \E ok \in BOOLEAN : GateSettle(r, ok)
  \/ \E r \in InFlight : \E ok \in BOOLEAN : AdapterSettle(r, ok)

SpecResolvers == Init /\ [][NextResolvers]_vars

\* the calls beside the Node lookup
NextNode ==
  \/ Build
  \/ NodeResolve
  \/ \E i \in 1..MaxCollections : \E n \in (0..MaxMatches) \cup {Rejected} :
       FindSettle(i, n)
  \/ NodeThen

SpecNode == Init /\ [][NextNode]_vars

(***************************************************************************)
(* The properties.                                                         *)
(***************************************************************************)
\* the last call handed a schema to cb
Handed == callbacks # <<>> /\ callbacks[1].schema

\* the last call was given a non-empty mapping
CalledWithCollections == nCalls > 0 /\ ~IsEmpty(params.collections)

IdentitiesOf(cols) == {capitalize(cols[i].key) : i \in 1..Len(cols)}

BaseQueryNames(cols) ==
  UNION {{toLowerCase(id), toLowerCase(id) \o Str_s} : id \in IdentitiesOf(cols)}

UsefulQueryNames(cols) ==
  UNION {{Str_getLatest \o id \o Str_s, Str_getFirst \o id \o Str_s,
          Str_count \o id \o Str_s} : id \in IdentitiesOf(cols)}

MutationNames(cols) ==
  UNION {{Str_create \o id, Str_update \o id, Str_delete \o id} :
         id \in IdentitiesOf(cols)}

AdapterCalled(r) == r.adapter \in {"called", "returned", "failed"}

\* C1: in every invocation of a generated resolver, entered by the engine
\* or by a relation field that delegates to it, the adapter function is
\* called only after the Policy Gate, called for the field's category and
\* operation name, has resolved; when the gate rejects, the adapter is not
\* called and the resolver's result is null.
C1_AdapterOnlyAfterGate ==
  \A r \in InFlight :
    /\ AdapterCalled(r) => r.gate = "resolved"
    /\ r.gate = "rejected" =>
         /\ r.adapter = "none"
         /\ r.phase = "done"
         /\ r.settled = "fulfilled"
         /\ r.value = "null"
    /\ r.gate = "none" => r.adapter = "none" /\ r.settled = "threw"
    /\ r.phase \in {"gate", "adapter"} =>
         /\ toLowerCase(r.policy) = toLowerCase(r.key)
         /\ r.identity \in IdentitiesOf(Schema.collections) \cup
                           IdentitiesOf(collections)
         /\ r.category = IF r.fn \in {"create", "update", "delete"}
                         THEN "mutations" ELSE "queries"

\* a relation field's delegate was refused by the gate and gave null with
\* no adapter call, beside a singular getter that called fetch once its
\* gate had resolved
C1_Witness ==
  \E r, q \in InFlight :
    /\ r.via = "relation" /\ r.gate = "rejected" /\ r.value = "null"
    /\ q.via = "field" /\ q.fn = "fetch" /\ q.adapter = "called"
    /\ q.gate = "resolved"

ResolverFailed(r) == r.gate = "rejected" \/ r.adapter \in {"failed", "missing"}

\* C2: every invocation of a query or mutation resolver settles fulfilled,
\* never rejected: with null when its own gate rejected or its own adapter
\* call failed, with the adapter's data otherwise; and a settled invocation
\* keeps its result whatever the other invocations do.
C2_NullNeverRejection ==
  /\ [](\A r \in InFlight :
          (r.category # "none" /\ r.phase = "done") =>
            /\ r.settled = "fulfilled"
            /\ r.value = IF ResolverFailed(r) THEN "null" ELSE "data")
  /\ [][\A r \in InFlight :
          r.phase = "done" =>
            CopiesIn(r, invocations') >= CopiesIn(r, invocations)]_vars

\* two invocations settled side by side: one whose adapter call failed,
\* with null, and one with the data its adapter returned
C2_Witness ==
  \E r, q \in InFlight :
    /\ r.phase = "done" /\ r.adapter = "failed" /\ r.value = "null"
    /\ q.phase = "done" /\ q.adapter = "returned" /\ q.value = "data"

\* C3: the schema a call hands back has no mutation root exactly when that
\* call's options set ignoreMutations to true; otherwise its mutation root
\* holds create, update and delete fields for every collection of the call.
C3_MutationRootFollowsCall ==
  Handed =>
    /\ (~Schema.hasMutation) <=> (params.ignoreMutations = "true")
    /\ Schema.hasMutation =>
         MutationNames(params.collections) \subseteq Range(Keys(Schema.mutation))

\* C4: the query fields a call produces hold getLatest, getFirst and count
\* for every collection when that call's usefulQueries is true or not set,
\* none of them when it is false, and the singular and plural fields in
\* both cases.
C4_UsefulQueriesFollowCall ==
  Handed =>
    /\ BaseQueryNames(params.collections) \subseteq Range(Keys(Schema.query))
    /\ IF params.usefulQueries = "false"
       THEN UsefulQueryNames(params.collections) \cap Range(Keys(Schema.query)) = {}
       ELSE UsefulQueryNames(params.collections) \subseteq Range(Keys(Schema.query))

\* C5: for every collection and every scalar attribute of it, the create
\* mutation has an argument of the attribute's name, non-null exactly when
\* the attribute is required.
C5_CreateArguments ==
  (Handed /\ Schema.hasMutation) =>
    \A i \in 1..Len(params.collections) :
      LET c == params.collections[i]
          create == Str_create \o capitalize(c.key)
      IN  /\ Has(Schema.mutation, create)
          /\ \A a \in Range(c.attributes) :
               a.kind = "scalar" =>
                 \E arg \in Get(Schema.mutation, create).args :
                   arg.name = a.name /\ arg.nonNull = a.required

EmptyCall == nCalls' = nCalls + 1 /\ params'.collections = <<>>

\* C6: a call with an empty mapping invokes cb exactly once, with an error
\* and no schema, runs no build pass, leaves the registry as it was and
\* starts no write.
C6_EmptyMappingRefused ==
  [][EmptyCall =>
       /\ callbacks' = << [err |-> TRUE, schema |-> FALSE] >>
       /\ ~thrown'
       /\ trace' = <<>>
       /\ UNCHANGED registry
       /\ Schema' = Schema
       /\ writes' \subseteq writes]_vars

\* an empty mapping was refused after an earlier call had filled the
\* registry, which is still filled
C6_Witness ==
  /\ nCalls > 1
  /\ params.collections = <<>>
  /\ callbacks = << [err |-> TRUE, schema |-> FALSE] >>
  /\ queryFields # <<>>
  /\ writes # {}

IsWrite(e) == e.ev = "write"

\* the events of the trace before the first write
BeforeWrites(t) ==
  {i \in 1..Len(t) : \A j \in 1..i : t[j].ev # "write"}

\* C7: for every call with a non-empty mapping, cb receives the schema,
\* once and with no error, before the first write is started; one write is
\* then started for every collection; a failed write is logged and reaches
\* neither the caller nor the other writes.
C7_SchemaThenOneWriteEach ==
  CalledWithCollections =>
    /\ callbacks = << [err |-> FALSE, schema |-> TRUE] >>
    /\ ~thrown
    /\ \E i \in BeforeWrites(trace) : trace[i].ev = "cb"
    /\ Keys(SelectSeq(trace, IsWrite)) = Keys(params.collections)
    /\ \A i \in 1..Len(params.collections) :
         \E w \in writes : w.call = nCalls /\ w.key = params.collections[i].key

\* what C7 says of the calls that do not throw
C7_WhenNothingThrows ==
  (CalledWithCollections /\ ~thrown) =>
    /\ callbacks = << [err |-> FALSE, schema |-> TRUE] >>
    /\ \E i \in BeforeWrites(trace) : trace[i].ev = "cb"
    /\ Keys(SelectSeq(trace, IsWrite)) = Keys(params.collections)
    /\ \A i \in 1..Len(params.collections) :
         \E w \in writes : w.call = nCalls /\ w.key = params.collections[i].key

\* C8: after a call, the registry's types, query fields and mutation
\* fields, and the operation names written to each scaffold, are those of
\* the call's collections under the options in force; nothing an earlier
\* call produced remains, also when the call disables mutations.
C8_RegistryOfLastCall ==
  Handed =>
    LET expectedQueries ==
          BaseQueryNames(collections) \cup
          (IF usefulQueries = "true" THEN UsefulQueryNames(collections) ELSE {})
        expectedMutations ==
          IF ignoreMutations = "true" THEN {} ELSE MutationNames(collections)
    IN  /\ collections = params.collections
        /\ types = IdentitiesOf(collections)
        /\ Range(Keys(queryFields)) = expectedQueries
        /\ Range(Keys(mutations)) = expectedMutations
        /\ \A w \in writes :
             w.call = nCalls =>
               /\ w.queries \subseteq expectedQueries
               /\ w.mutations \subseteq expectedMutations

IsPass(e) == e.ev = "pass"

PassOver(pass, cols) == [i \in 1..Len(cols) |-> PassEvent(pass, cols[i].key)]

\* C9: a build runs engine resolution, type synthesis, query synthesis and
\* mutation synthesis in this order, each over every collection, and reads
\* no registry entry that the pass producing it has not written.
C9_PassOrderAndReads ==
  CalledWithCollections =>
    /\ SelectSeq(trace, IsPass) =
         PassOver("functions", collections) \o PassOver("types", collections)
         \o PassOver("queries", collections)
         \o (IF ignoreMutations = "true" THEN <<>>
             ELSE PassOver("mutations", collections))
    /\ \A i \in 1..Len(trace) : trace[i].ev = "read" => trace[i].found

\* the collections of the lookup that returned exactly one row
SingleMatches(l) == {i \in 1..Len(l.results) : l.results[i] = 1}

\* C10: when every find has answered and exactly one collection returned
\* exactly one row, the lookup returns that row with its type stamped from
\* the query field of the collection that matched, wherever that
\* collection stands in the mapping.
C10_TypeOfMatchingCollection ==
  ( /\ lookup.st = "done"
    /\ Handed
    /\ lookup.cols = collections
    /\ \A i \in 1..Len(lookup.results) : lookup.results[i] \in 0..MaxMatches
    /\ Cardinality(SingleMatches(lookup)) = 1 ) =>
      LET i == CHOOSE j \in SingleMatches(lookup) : TRUE
          id == getCollectionIdentity(lookup.cols[i])
      IN  /\ ~lookup.error
          /\ lookup.from = i
          /\ lookup.type = Get(queryFields, toLowerCase(id)).type

====
